---- MODULE Spec2Model ----
(***************************************************************************)
(* TuyaDevice (custom_components/localtuya/common.py): the connection      *)
(* manager of one Tuya device, its status cache, the dispatcher signal it  *)
(* sends and the entity that listens to it.                                *)
(*                                                                         *)
(* The asyncio event loop runs one callback or one task step at a time;    *)
(* every action below is one such callback or one step of the              *)
(* _make_connection coroutine between two awaits.                          *)
(***************************************************************************)
EXTENDS Integers, FiniteSets, Sequences, TLC

\* ------------------------------------------------------------------ bounds
MaxAttempts == 2
MaxLinks == 2
MaxTasks == 2
MaxExponent == 10

\* ------------------------------------------------------- program constants
BACKOFF_TIME_UPPER_LIMIT == 300

\* ------------------------------------------------------------------ values
NoTask == 0
NoLink == 0
TaskSlots == 1..MaxTasks
LinkIds == 1..MaxLinks
Keys == {"1", "2"}
Vals == {"on", "off", "5"}
\* datapoint "1" is a switch, datapoint "2" reports one level
ValsOf(k) == IF k = "1" THEN {"on", "off"} ELSE {"5"}
EmptyMap == << >>
\* every dict a status() call or a status push can carry
Snapshots ==
    UNION {{f \in [D -> Vals] : \A k \in D : f[k] \in ValsOf(k)} : D \in SUBSET Keys}
\* the datapoint ids a platform can ask for
DpIds == {1, 2}
\* the ids of config_entry[CONF_ENTITIES]
ConfiguredDps == {1}

VARIABLES
    interface,            \* self._interface: NoLink or the link held
    status,               \* self._status: the status cache
    is_closing,           \* self._is_closing
    connect_task,         \* self._connect_task: NoTask or the task it refers to
    connection_attempts,  \* self._connection_attempts
    passive,              \* config_entry[CONF_PASSIVE_DEVICE]
    cancelIsException,    \* asyncio.CancelledError derives from Exception (Python < 3.8)
    tasks,                \* the _make_connection coroutines: where each one is suspended
    links,                \* the pytuya connections handed out by pytuya.connect
    scheduled,            \* a loop.call_soon(self.connect) that has not run yet
    entStatus,            \* LocalTuyaEntity._status
    entLastSeen,          \* LocalTuyaEntity._last_seen is not None
    sent,                 \* what the latest step passed to async_dispatcher_send
    wrote,                \* the link the latest step forwarded a set_dp to
    consecFails,          \* history: attempts that ended in the except branch since the last success
    closedInBackoff,      \* history: close() cancelled an attempt before it left its backoff wait
    lastPayload,          \* history: kind of the last payload the entity received
    dps_to_request,       \* self._dps_to_request: the ids asked of the device
    registered,           \* what the latest step passed to add_dps_to_request
    dpCall,               \* how the set_dp call of the latest step went
    connectCalled,        \* history: the integration has called connect()
    bn, br, bd            \* backoff policy on its own: attempt count, random draw, wait

vars == <<interface, status, is_closing, connect_task, connection_attempts, passive,
          cancelIsException, tasks, links, scheduled, entStatus, entLastSeen, sent,
          wrote, consecFails, closedInBackoff, lastPayload, dps_to_request,
          registered, dpCall, connectCalled, bn, br, bd>>

sessionVars == <<interface, status, is_closing, connect_task, connection_attempts, passive,
                 cancelIsException, tasks, links, scheduled, entStatus, entLastSeen, sent,
                 wrote, consecFails, closedInBackoff, lastPayload, dps_to_request,
                 registered, dpCall, connectCalled>>

backoffVars == <<bn, br, bd>>

\* ----------------------------------------------------------------- helpers
Min(a, b) == IF a < b THEN a ELSE b

RECURSIVE Pow2(_)
Pow2(n) == IF n = 0 THEN 1 ELSE 2 * Pow2(n - 1)

\* randrange(2 ** n): the values it can return
RandRange(n) == 0..(Pow2(n) - 1)

\* mutant: the cap is not applied
BackoffUncapped(n, r) == r
\* backoff = min(randrange(2 ** attempts), BACKOFF_TIME_UPPER_LIMIT), r the draw
Backoff(n, r) == Min(r, BACKOFF_TIME_UPPER_LIMIT)

\* mutant: the update replaces the cache
MergeReplace(cache, upd) == upd
\* mutant: keys the cache already holds keep their value
MergeKeepsOld(cache, upd) ==
    [k \in (DOMAIN cache) \cup (DOMAIN upd) |->
        IF k \in DOMAIN cache THEN cache[k] ELSE upd[k]]
\* dict.update
Merge(cache, upd) ==
    [k \in (DOMAIN cache) \cup (DOMAIN upd) |->
        IF k \in DOMAIN upd THEN upd[k] ELSE cache[k]]

NoSignal == [kind |-> "none", payload |-> EmptyMap, origin |-> NoLink]
StatusSignal(s, l) == [kind |-> "status", payload |-> s, origin |-> l]
UnreachableSignal(l) == [kind |-> "unreachable", payload |-> EmptyMap, origin |-> l]

IdleTask == [pc |-> "idle", link |-> NoLink, cancel |-> FALSE]
Alive(t) == tasks[t].pc \in {"start", "sleep", "open", "status"}
AliveTasks == {t \in TaskSlots : Alive(t)}
FreeSlots == {t \in TaskSlots : tasks[t].pc = "idle"}
FreeLinks == {l \in LinkIds : links[l] = "free"}
LowestOf(S) == CHOOSE x \in S : \A y \in S : x <= y

\* ------------------------------------------------------- TuyaDevice.connect
\* mutant: the guard forgets the in-flight task
ConnectGuardNoTask(closing, task, iface) == ~closing /\ iface = NoLink
\* mutant: the guard forgets the closing flag
ConnectGuardNoClosing(closing, task, iface) == task = NoTask /\ iface = NoLink
\* if not self._is_closing and self._connect_task is None and not self._interface
ConnectGuard(closing, task, iface) == ~closing /\ task = NoTask /\ iface = NoLink

\* the body of connect(), run with self._interface = iface:
\* self._connect_task = asyncio.ensure_future(self._make_connection())
DoConnect(iface) ==
    IF ConnectGuard(is_closing, connect_task, iface) /\ FreeSlots # {}
    THEN LET t == LowestOf(FreeSlots) IN
         /\ tasks' = [tasks EXCEPT ![t] = [IdleTask EXCEPT !.pc = "start"]]
         /\ connect_task' = t
    ELSE UNCHANGED <<tasks, connect_task>>

\* ------------------------------------------- dispatcher and LocalTuyaEntity
\* _update_handler(status): the entity's _status after the signal
EntStatusAfter(sig) ==
    IF sig.kind = "status" THEN sig.payload
    ELSE IF passive THEN entStatus
    ELSE EmptyMap

\* _update_handler(status): whether _last_seen is set after the signal
EntLastSeenAfter(sig) == sig.kind = "unreachable" /\ passive

\* async_dispatcher_send(self._hass, signal, payload) and the entity's handler
Publish(sig) ==
    /\ sent' = sig
    /\ entStatus' = EntStatusAfter(sig)
    /\ entLastSeen' = EntLastSeenAfter(sig)
    /\ lastPayload' = sig.kind

NoPublish ==
    /\ sent' = NoSignal
    /\ UNCHANGED <<entStatus, entLastSeen, lastPayload>>

\* --------------------------------------------------------------- the links
\* interface.close() on link l (l may be NoLink: nothing to close)
CloseLink(ls, l) ==
    IF l = NoLink THEN ls
    ELSE [ls EXCEPT ![l] = IF @ = "open" THEN "closed" ELSE @]

\* the coroutine that awaited link l ends: a link that already reported its
\* disconnection has no reference left
Retire(ls, l) ==
    IF l # NoLink /\ ls[l] = "lost" THEN [ls EXCEPT ![l] = "free"] ELSE ls

Awaited(l) == \E t \in TaskSlots : Alive(t) /\ tasks[t].link = l

\* ------------------------------------------------------------ initial state
\* TuyaDevice.__init__ and LocalTuyaEntity.__init__
Init ==
    /\ interface = NoLink
    /\ status = EmptyMap
    /\ is_closing = FALSE
    /\ connect_task = NoTask
    /\ connection_attempts = 0
    /\ passive \in BOOLEAN
    /\ cancelIsException \in BOOLEAN
    /\ tasks = [t \in TaskSlots |-> IdleTask]
    /\ links = [l \in LinkIds |-> "free"]
    /\ scheduled = FALSE
    /\ entStatus = EmptyMap
    /\ entLastSeen = FALSE
    /\ sent = NoSignal
    /\ wrote = NoLink
    /\ consecFails = 0
    /\ closedInBackoff = FALSE
    /\ lastPayload = "none"
    /\ dps_to_request = ConfiguredDps
    /\ registered = {}
    /\ dpCall = "none"
    /\ connectCalled = FALSE
    /\ bn = 0 /\ br = 0 /\ bd = 0

\* ------------------------------------------------ calls from the integration
\* connect() called by the integration
Connect ==
    /\ DoConnect(interface)
    /\ connectCalled' = TRUE
    /\ NoPublish
    /\ wrote' = NoLink /\ dpCall' = "none"
    /\ UNCHANGED <<interface, status, is_closing, connection_attempts, passive,
                   cancelIsException, links, scheduled, consecFails, closedInBackoff>>
    /\ registered' = {}
    /\ UNCHANGED dps_to_request
    /\ UNCHANGED backoffVars

\* the connect() that the except branch handed to loop.call_soon
RunScheduled ==
    /\ scheduled
    /\ scheduled' = FALSE
    /\ DoConnect(interface)
    /\ NoPublish
    /\ wrote' = NoLink /\ dpCall' = "none"
    /\ UNCHANGED <<interface, status, is_closing, connection_attempts, passive,
                   cancelIsException, links, consecFails, closedInBackoff>>
    /\ registered' = {}
    /\ UNCHANGED <<dps_to_request, connectCalled>>
    /\ UNCHANGED backoffVars

\* close(): Task.cancel() marks the task; the CancelledError is raised in the
\* coroutine when the loop next runs it
Close ==
    /\ is_closing' = TRUE
    /\ tasks' = IF connect_task # NoTask /\ Alive(connect_task)
                THEN [tasks EXCEPT ![connect_task].cancel = TRUE]
                ELSE tasks
    /\ links' = CloseLink(links, interface)
    /\ closedInBackoff' =
          (closedInBackoff \/ (connect_task # NoTask /\ tasks[connect_task].pc = "sleep"))
    /\ NoPublish
    /\ wrote' = NoLink /\ dpCall' = "none"
    /\ UNCHANGED <<interface, status, connect_task, connection_attempts, passive,
                   cancelIsException, scheduled, consecFails>>
    /\ registered' = {}
    /\ UNCHANGED <<dps_to_request, connectCalled>>
    /\ UNCHANGED backoffVars

\* mutant: the write is forwarded whether or not a link is held
ForwardsAlways(iface) == TRUE
\* if self._interface is not None
Forwards(iface) == iface # NoLink

\* what set_dp returns to its caller: the coroutine has no return statement
SetDpReturn(outcome) == "None"

\* set_dp(state, dp_index): forwarded when self._interface is not None; the link
\* accepts the write or raises, which is logged
SetDp ==
    /\ wrote' = IF Forwards(interface) THEN interface ELSE NoLink
    /\ \E accepted \in BOOLEAN :
          dpCall' = IF ~Forwards(interface) THEN "nolink"
                    ELSE IF accepted THEN "accepted" ELSE "rejected"
    /\ NoPublish
    /\ UNCHANGED <<interface, status, is_closing, connect_task, connection_attempts,
                   passive, cancelIsException, tasks, links, scheduled, consecFails,
                   closedInBackoff>>
    /\ registered' = {}
    /\ UNCHANGED <<dps_to_request, connectCalled>>
    /\ UNCHANGED backoffVars

\* async_setup_entry: tuyainterface._dps_to_request[device_config[dp_conf]] = None
AddDps(d) ==
    /\ dps_to_request' = dps_to_request \cup {d}
    /\ NoPublish
    /\ wrote' = NoLink /\ dpCall' = "none"
    /\ registered' = {}
    /\ UNCHANGED <<interface, status, is_closing, connect_task, connection_attempts,
                   passive, cancelIsException, tasks, links, scheduled, consecFails,
                   closedInBackoff, connectCalled>>
    /\ UNCHANGED backoffVars

\* ------------------------------------------------ TuyaDevice._make_connection
\* The loop's ready queue is first in, first out: a connect() handed to call_soon
\* runs before any step of a task created after it, and the task that handed it
\* over ends in the same step.
Runnable(t) == Alive(t) /\ ~scheduled

\* mutant: a failure leaves the counter alone
OnFailureKeeps(n) == n
\* self._connection_attempts += 1
OnFailure(n) == n + 1

\* mutant: a success leaves the counter alone
OnSuccessKeeps(n) == n
\* self._connection_attempts = 0
OnSuccess(n) == 0

\* mutant: the except branch schedules nothing
RetryDropped(pending) == pending
\* self._hass.loop.call_soon(self.connect)
ScheduleRetry(pending) == TRUE

\* first step: the backoff is drawn and the coroutine awaits asyncio.sleep(backoff)
TaskStart(t) ==
    /\ Runnable(t) /\ tasks[t].pc = "start" /\ ~tasks[t].cancel
    /\ \E r \in RandRange(connection_attempts) :
          /\ Backoff(connection_attempts, r) \in 0..BACKOFF_TIME_UPPER_LIMIT
          /\ tasks' = [tasks EXCEPT ![t].pc = "sleep"]
    /\ NoPublish
    /\ wrote' = NoLink /\ dpCall' = "none"
    /\ UNCHANGED <<interface, status, is_closing, connect_task, connection_attempts,
                   passive, cancelIsException, links, scheduled, consecFails,
                   closedInBackoff>>
    /\ registered' = {}
    /\ UNCHANGED <<dps_to_request, connectCalled>>
    /\ UNCHANGED backoffVars

\* the sleep is over: the coroutine enters the try block and awaits pytuya.connect
TaskWake(t) ==
    /\ Runnable(t) /\ tasks[t].pc = "sleep" /\ ~tasks[t].cancel
    /\ tasks' = [tasks EXCEPT ![t].pc = "open"]
    /\ NoPublish
    /\ wrote' = NoLink /\ dpCall' = "none"
    /\ UNCHANGED <<interface, status, is_closing, connect_task, connection_attempts,
                   passive, cancelIsException, links, scheduled, consecFails,
                   closedInBackoff>>
    /\ registered' = {}
    /\ UNCHANGED <<dps_to_request, connectCalled>>
    /\ UNCHANGED backoffVars

\* mutant: only the ids configured at creation are registered
RegisterConfigured(dps) == ConfiguredDps
\* self._interface.add_dps_to_request(self._dps_to_request)
RegisterDps(dps) == dps

\* pytuya.connect returned a link: self._interface is set, the requested DPS are
\* registered and the coroutine awaits self._interface.status()
TaskConnected(t) ==
    /\ Runnable(t) /\ tasks[t].pc = "open" /\ ~tasks[t].cancel
    /\ FreeLinks # {}
    /\ LET l == LowestOf(FreeLinks) IN
          /\ interface' = l
          /\ links' = [links EXCEPT ![l] = "open"]
          /\ tasks' = [tasks EXCEPT ![t].pc = "status", ![t].link = l]
    /\ NoPublish
    /\ wrote' = NoLink /\ dpCall' = "none"
    /\ UNCHANGED <<status, is_closing, connect_task, connection_attempts, passive,
                   cancelIsException, scheduled, consecFails, closedInBackoff>>
    /\ registered' = RegisterDps(dps_to_request)
    /\ UNCHANGED <<dps_to_request, connectCalled>>
    /\ UNCHANGED backoffVars

\* the except branch and the statement after it: count the failure, close and drop
\* the link held, schedule connect(), clear the handle
FailAttempt(t) ==
    /\ connection_attempts < MaxAttempts
    /\ connection_attempts' = OnFailure(connection_attempts)
    /\ links' = Retire(CloseLink(links, interface), tasks[t].link)
    /\ interface' = NoLink
    /\ scheduled' = ScheduleRetry(scheduled)
    /\ connect_task' = NoTask
    /\ tasks' = [tasks EXCEPT ![t] = IdleTask]
    /\ consecFails' = consecFails + 1
    /\ NoPublish
    /\ wrote' = NoLink /\ dpCall' = "none"
    /\ UNCHANGED <<status, is_closing, passive, cancelIsException, closedInBackoff>>
    /\ registered' = {}
    /\ UNCHANGED <<dps_to_request, connectCalled>>
    /\ UNCHANGED backoffVars

\* pytuya.connect raised
TaskConnectFailed(t) ==
    /\ Runnable(t) /\ tasks[t].pc = "open" /\ ~tasks[t].cancel
    /\ FailAttempt(t)

\* status() returned None (raise Exception) or raised
TaskStatusFailed(t) ==
    /\ Runnable(t) /\ tasks[t].pc = "status" /\ ~tasks[t].cancel
    /\ FailAttempt(t)

\* status() returned the dict s: status_updated(s), the counter is reset and the
\* handle cleared
TaskStatusOk(t, s) ==
    /\ Runnable(t) /\ tasks[t].pc = "status" /\ ~tasks[t].cancel
    /\ status' = Merge(status, s)
    /\ Publish(StatusSignal(status', tasks[t].link))
    /\ connection_attempts' = OnSuccess(connection_attempts)
    /\ connect_task' = NoTask
    /\ tasks' = [tasks EXCEPT ![t] = IdleTask]
    /\ links' = Retire(links, tasks[t].link)
    /\ consecFails' = 0
    /\ wrote' = NoLink /\ dpCall' = "none"
    /\ UNCHANGED <<interface, is_closing, passive, cancelIsException, scheduled,
                   closedInBackoff>>
    /\ registered' = {}
    /\ UNCHANGED <<dps_to_request, connectCalled>>
    /\ UNCHANGED backoffVars

\* CancelledError leaves the coroutine: nothing after the await runs
CancelPropagates(t) ==
    /\ tasks' = [tasks EXCEPT ![t] = [IdleTask EXCEPT !.pc = "cancelled"]]
    /\ links' = Retire(links, tasks[t].link)
    /\ NoPublish
    /\ wrote' = NoLink /\ dpCall' = "none"
    /\ UNCHANGED <<interface, status, is_closing, connect_task, connection_attempts,
                   passive, cancelIsException, scheduled, consecFails, closedInBackoff>>
    /\ registered' = {}
    /\ UNCHANGED <<dps_to_request, connectCalled>>
    /\ UNCHANGED backoffVars

\* the loop runs a task that close() cancelled: CancelledError is raised at the
\* await the coroutine is suspended in. The sleep is outside the try block; inside
\* it, except Exception catches CancelledError only where it derives from Exception
TaskCancelled(t) ==
    /\ Runnable(t) /\ tasks[t].cancel
    /\ IF tasks[t].pc \in {"open", "status"} /\ cancelIsException
       THEN FailAttempt(t)
       ELSE CancelPropagates(t)

\* ------------------------------------------------- callbacks from the links
\* mutant: no device reconnects from the callback
ReconnectsNever(isPassive) == FALSE
\* mutant: a passive device reconnects as well
ReconnectsAlways(isPassive) == TRUE
\* if not self._config_entry[CONF_PASSIVE_DEVICE]: self.connect()
Reconnects(isPassive) == ~isPassive

\* status_updated(s) called by an open link
LinkStatus(l, s) ==
    /\ links[l] = "open"
    /\ status' = Merge(status, s)
    /\ Publish(StatusSignal(status', l))
    /\ wrote' = NoLink /\ dpCall' = "none"
    /\ UNCHANGED <<interface, is_closing, connect_task, connection_attempts, passive,
                   cancelIsException, tasks, links, scheduled, consecFails,
                   closedInBackoff>>
    /\ registered' = {}
    /\ UNCHANGED <<dps_to_request, connectCalled>>
    /\ UNCHANGED backoffVars

\* disconnected(exc) called by link l, once, when its connection is gone: after
\* the device dropped it or after close() was called on it
LinkLost(l) ==
    /\ links[l] \in {"open", "closed"}
    /\ Publish(UnreachableSignal(l))
    /\ interface' = NoLink
    /\ links' = [links EXCEPT ![l] = IF Awaited(l) THEN "lost" ELSE "free"]
    /\ IF Reconnects(passive)
       THEN DoConnect(NoLink)
       ELSE UNCHANGED <<tasks, connect_task>>
    /\ wrote' = NoLink /\ dpCall' = "none"
    /\ UNCHANGED <<status, is_closing, connection_attempts, passive, cancelIsException,
                   scheduled, consecFails, closedInBackoff>>
    /\ registered' = {}
    /\ UNCHANGED <<dps_to_request, connectCalled>>
    /\ UNCHANGED backoffVars

\* a link that close() was called on goes away without calling back
LinkReleased(l) ==
    /\ links[l] = "closed" /\ l # interface /\ ~Awaited(l)
    /\ links' = [links EXCEPT ![l] = "free"]
    /\ NoPublish
    /\ wrote' = NoLink /\ dpCall' = "none"
    /\ UNCHANGED <<interface, status, is_closing, connect_task, connection_attempts,
                   passive, cancelIsException, tasks, scheduled, consecFails,
                   closedInBackoff>>
    /\ registered' = {}
    /\ UNCHANGED <<dps_to_request, connectCalled>>
    /\ UNCHANGED backoffVars

\* ------------------------------------------------------------ specification
Next ==
    \/ Connect
    \/ RunScheduled
    \/ Close
    \/ SetDp
    \/ \E d \in DpIds : AddDps(d)
    \/ \E t \in TaskSlots : TaskStart(t)
    \/ \E t \in TaskSlots : TaskWake(t)
    \/ \E t \in TaskSlots : TaskConnected(t)
    \/ \E t \in TaskSlots : TaskConnectFailed(t)
    \/ \E t \in TaskSlots : TaskStatusFailed(t)
    \/ \E t \in TaskSlots : \E s \in Snapshots : TaskStatusOk(t, s)
    \/ \E t \in TaskSlots : TaskCancelled(t)
    \/ \E l \in LinkIds : \E s \in Snapshots \ {EmptyMap} : LinkStatus(l, s)
    \/ \E l \in LinkIds : LinkLost(l)
    \/ \E l \in LinkIds : LinkReleased(l)

Spec == Init /\ [][Next]_vars

\* the event loop runs every callback handed to call_soon
FairSpec == Spec /\ WF_vars(RunScheduled)

\* ------------------------------------------------ the backoff policy alone
BackoffInit ==
    /\ Init
    /\ passive = FALSE /\ cancelIsException = FALSE

BackoffDraw ==
    /\ bd = 0 /\ bn = 0 /\ br = 0
    /\ \E n \in 0..MaxExponent : \E r \in RandRange(n) :
          /\ bn' = n
          /\ br' = r
          /\ bd' = Backoff(n, r)
    /\ UNCHANGED sessionVars

BackoffNext == BackoffDraw

BackoffSpec == BackoffInit /\ [][BackoffNext]_vars

\* ------------------------------------------------------------------ claims
\* a step that starts a connection attempt
NewAttempt == \E t \in TaskSlots : ~Alive(t) /\ tasks'[t].pc = "start"
\* a step in which a connection attempt ends
AttemptEnds == \E t \in TaskSlots : Alive(t) /\ tasks'[t].pc \notin {"start", "sleep", "open", "status"}

\* C1: at most one connection attempt is in flight in every reachable state, and a
\* step starts an attempt only when the session is not closing, no attempt is
\* outstanding and no link is held (the disconnected callback drops the link
\* before it calls connect()).
C1_OneAttemptInFlight ==
    /\ [](Cardinality(AliveTasks) <= 1)
    /\ [][NewAttempt =>
            /\ ~is_closing
            /\ AliveTasks = {}
            /\ connect_task = NoTask
            /\ (interface = NoLink \/ sent'.kind = "unreachable")]_vars

\* C1 witness: the disconnected callback of a non-passive device called connect()
\* while the attempt was awaiting the initial status, and one attempt is in flight.
C1_Witness ==
    /\ ~passive /\ ~is_closing
    /\ sent.kind = "unreachable"
    /\ Cardinality(AliveTasks) = 1
    /\ \E t \in TaskSlots : tasks[t].pc = "status"

\* C2 (as claimed): once no connection attempt is running any more, whether it
\* ended by success, failure or cancellation, the handle _connect_task is absent.
C2_HandleClearedOnEveryExit == (AliveTasks = {}) => (connect_task = NoTask)

\* C3: once close() has been called the closing flag stays set and no step starts
\* a connection attempt.
C3_ClosedIsTerminal == [][is_closing => (is_closing' /\ ~NewAttempt)]_vars

\* C3 witness: after close(), the disconnected callback of a non-passive device
\* called connect() with no link held and no handle set, and no attempt started.
C3_Witness ==
    /\ is_closing /\ ~passive
    /\ sent.kind = "unreachable"
    /\ interface = NoLink /\ connect_task = NoTask
    /\ AliveTasks = {}

\* C4 (as claimed): after close() was called while the attempt was suspended in
\* its backoff wait, no attempt awaits a link it opened and no step publishes a
\* status snapshot or an unreachable notification.
C4_SilentAfterCloseInBackoff ==
    closedInBackoff =>
        /\ sent.kind = "none"
        /\ \A t \in TaskSlots : tasks[t].pc # "status"

\* an attempt has failed, none has started since, and the session is open
FailedIdle == connection_attempts > 0 /\ connect_task = NoTask /\ ~is_closing

\* C5: while a scheduled retry connect() is pending, the handle is absent or
\* refers to an attempt started after the failure (never the failed attempt's
\* own), and under a fair event loop every failed attempt of a session that is
\* not closing is followed by a new attempt.
C5_FailureRetried ==
    /\ [](scheduled => (connect_task = NoTask \/ tasks[connect_task].pc = "start"))
    /\ (FailedIdle ~> (connect_task # NoTask \/ is_closing))

\* C5 witness: after a failed attempt the scheduled connect() has run and a new
\* attempt is in flight.
C5_Witness ==
    /\ connection_attempts > 0 /\ ~is_closing /\ ~scheduled
    /\ connect_task # NoTask /\ Alive(connect_task)

\* C6 (as claimed): on a non-passive device whose subscriber last received the
\* unreachable marker, the snapshot published by the successful attempt that
\* reconnected afterwards (the link it opened is still held) is exactly the
\* fetched status.
C6_FreshSnapshotAfterDisconnect ==
    [][\A t \in TaskSlots : \A s \in Snapshots :
          (/\ ~passive /\ lastPayload = "unreachable"
           /\ interface # NoLink /\ interface = tasks[t].link
           /\ s # EmptyMap /\ TaskStatusOk(t, s))
              => sent'.payload = s]_vars

\* C7 (as claimed): right after the disconnected callback of a passive device the
\* session has no link and no connection attempt in flight.
C7_PassiveIdleAfterDisconnect ==
    (passive /\ sent.kind = "unreachable") => (interface = NoLink /\ AliveTasks = {})

\* C7 (amended): the disconnected callback of a passive device leaves the cache,
\* the entity's view of it, the attempts, the handle and the scheduled retry
\* unchanged and leaves no link held; and a passive session with no link, no
\* attempt and no retry pending gets an attempt or a link only by a connect()
\* call of the integration.
C7_PassiveDisconnectFrame ==
    /\ [][(passive /\ sent'.kind = "unreachable") =>
            /\ status' = status
            /\ entStatus' = entStatus
            /\ tasks' = tasks
            /\ connect_task' = connect_task
            /\ scheduled' = scheduled
            /\ interface' = NoLink]_vars
    /\ [][(/\ passive /\ interface = NoLink /\ connect_task = NoTask /\ ~scheduled
           /\ (connect_task' # NoTask \/ interface' # NoLink \/ tasks' # tasks))
            => Connect]_vars

\* C7 witness: a passive device with a filled cache was disconnected; the cache
\* and the entity's view are kept and nothing is in flight.
C7_Witness ==
    /\ passive /\ ~is_closing
    /\ sent.kind = "unreachable"
    /\ status # EmptyMap /\ entStatus = status /\ entLastSeen
    /\ interface = NoLink /\ connect_task = NoTask /\ AliveTasks = {}

\* C8 (as claimed): no step publishes a status snapshot that originates from a
\* link whose disconnected callback has already published the unreachable marker.
C8_NoStaleStatusAfterUnreachable ==
    [][sent'.kind = "status" => links[sent'.origin] # "lost"]_vars

\* C9: connection_attempts equals the number of attempts that ended in the except
\* branch since creation or since the last successful attempt (so it is 0 right
\* after a success), and only a step in which an attempt ends changes it.
C9_AttemptCount ==
    /\ [](connection_attempts = consecFails)
    /\ [][AttemptEnds \/ connection_attempts' = connection_attempts]_vars

\* C9 witness: two attempts in a row have failed.
C9_Witness == connection_attempts = 2 /\ consecFails = 2 /\ AliveTasks = {}

\* C10: the backoff wait for attempt count bn is an integer between 0 and 300 and
\* below 2^bn.
C10_BackoffBounded ==
    /\ bd \in Int
    /\ 0 <= bd /\ bd <= 300
    /\ bd < Pow2(bn)

\* C10 witness: a draw above the limit was capped to it.
C10_Witness == br > 300 /\ bd = 300

\* C11 (as claimed): an attempt whose initial status fetch returns the empty
\* mapping is treated as a failure: the step publishes nothing, increments the
\* attempt count, schedules a retry, leaves no link held and clears the handle.
C11_EmptySnapshotIsFailure ==
    [][\A t \in TaskSlots :
          TaskStatusOk(t, EmptyMap) =>
              /\ sent'.kind = "none"
              /\ connection_attempts' = connection_attempts + 1
              /\ scheduled'
              /\ interface' = NoLink]_vars

\* C12 (as claimed): a set_dp call on a session with no link forwards nothing and
\* returns to its caller a result that differs from the result of an accepted
\* write; and every set_dp call (no link, accepted, rejected) leaves the link
\* handle, the attempt in flight, the attempt count, the closing flag and the
\* status cache unchanged.
C12_WriteWithoutLinkFails ==
    [][dpCall' # "none" =>
          /\ (dpCall' = "nolink" =>
                /\ wrote' = NoLink
                /\ SetDpReturn("nolink") # SetDpReturn("accepted"))
          /\ UNCHANGED <<interface, connect_task, tasks, connection_attempts,
                         is_closing, status>>]_vars

\* the connected property: self._interface is not None and self._connect_task is None
Connected == interface # NoLink /\ connect_task = NoTask

\* C13 (as claimed): a step forwards a set_dp write to the link only when the
\* session is connected before it (link held, no handle, no attempt in flight).
C13_WriteOnlyWhenConnected ==
    [][wrote' # NoLink => (Connected /\ AliveTasks = {})]_vars

\* a step in which pytuya.connect hands out link l
LinkOpened(l) == links[l] = "free" /\ links'[l] = "open"

\* C14: no step removes an id from the requested-datapoint set, and every step
\* that opens a link registers on it the whole set accumulated so far.
C14_RequestedDpsAccumulate ==
    /\ [][dps_to_request \subseteq dps_to_request']_vars
    /\ [][\A l \in LinkIds :
            LinkOpened(l) => (registered' = dps_to_request /\ dps_to_request' = dps_to_request)]_vars

\* C14 witness: after an earlier link was lost, a link has just been opened and
\* registered with an id that a platform added to the configured ones.
C14_Witness ==
    /\ lastPayload = "unreachable"
    /\ registered = DpIds /\ registered # ConfiguredDps
    /\ interface # NoLink /\ links[interface] = "open"

\* C15: each status_updated(s) call of a link merges s into the cache without
\* destroying it and publishes the merged cache in the same step: every key of s
\* maps to its new value, every other cached key keeps its value, no other key
\* appears, and the snapshot sent to the subscriber is the cache after the merge.
C15_MergeThenPublish ==
    [][/\ sent'.kind = "status" => (sent'.payload = status' /\ entStatus' = status')
       /\ status' # status => sent'.kind = "status"
       /\ sent'.kind = "status" =>
             \A s \in Snapshots \ {EmptyMap} :
                LinkStatus(sent'.origin, s) =>
                    /\ DOMAIN status' = (DOMAIN status) \cup (DOMAIN s)
                    /\ \A k \in DOMAIN s : status'[k] = s[k]
                    /\ \A k \in (DOMAIN status) \ (DOMAIN s) : status'[k] = status[k]]_vars

\* C15 witness: the link pushed an update while the attempt that opened it still
\* awaits the initial status (so the step was the link's status_updated call);
\* the cache holds both keys, the switch with the value pushed last, and the
\* subscriber has received that cache.
C15_Witness ==
    /\ \E t \in TaskSlots : tasks[t].pc = "status" /\ tasks[t].link = interface
    /\ interface # NoLink /\ links[interface] = "open"
    /\ sent.kind = "status" /\ sent.origin = interface
    /\ DOMAIN status = Keys /\ status["1"] = "off" /\ status["2"] = "5"
    /\ sent.payload = status /\ entStatus = status

\* a step taken by the running attempt t
AttemptStep(t) == Alive(t) /\ tasks'[t].pc # tasks[t].pc
\* the step in which attempt t leaves the try block without entering the except
\* branch
AttemptSucceeds(t) ==
    /\ tasks[t].pc = "status" /\ tasks'[t].pc = "idle"
    /\ connection_attempts' # connection_attempts + 1

C17_DisconnectPublishesAndReconnects ==
    [][\A l \in LinkIds :
          (~passive /\ ~is_closing /\ LinkLost(l)) =>
              /\ sent' = UnreachableSignal(l) /\ sent'.kind # "status"
              /\ lastPayload' = "unreachable" /\ entStatus' = EmptyMap
              /\ interface' = NoLink /\ links'[l] # "open"
              /\ Cardinality({t \in TaskSlots :
                                tasks'[t].pc \in {"start", "sleep", "open", "status"}}) = 1]_vars

\* C17 witness: the link of a connected non-passive session with a filled cache
\* has reported its disconnection; the marker is published, no link is held and
\* the attempt that the callback started is in flight.
C17_Witness ==
    /\ ~passive /\ ~is_closing
    /\ sent.kind = "unreachable" /\ lastPayload = "unreachable"
    /\ status # EmptyMap /\ entStatus = EmptyMap
    /\ interface = NoLink
    /\ connect_task # NoTask /\ tasks[connect_task].pc = "start"
    /\ connection_attempts = 0

\* C18 (as claimed): a non-passive session on which connect() has been called and
\* close() has not holds a link, has a connection attempt in flight or has a
\* retry connect() pending.
C18_NoStuckSession ==
    (~passive /\ connectCalled /\ ~is_closing) =>
        (interface # NoLink \/ AliveTasks # {} \/ scheduled)

\* C19 (as claimed): every link that has been opened and not yet closed is the
\* link the session holds, so at most one link is open.
C19_NoLinkLeak ==
    \A l \in LinkIds : links[l] = "open" => l = interface

\* C20 (as claimed): whenever the session reports connected, the initial status
\* fetched over the held link has been merged and published (the subscriber's
\* last payload is a snapshot, equal to the cache), the attempt count is 0, and
\* close() has not been called.
C20_ConnectedMeansReady ==
    Connected =>
        /\ connection_attempts = 0
        /\ lastPayload = "status" /\ entStatus = status
        /\ ~is_closing

====
